---- MODULE Spec2Model ----
(***************************************************************************)
(* Model of quadratic-core/src/formulas/errors.rs: the FormulaError value  *)
(* (kind + optional span), its span-attachment protocol, the rendering of  *)
(* kinds and errors, and the internal_error_value! / internal_error!       *)
(* macros whose expansion depends on the build configuration.              *)
(*                                                                         *)
(* Texts are TLA+ strings; Rust's `{}` of an unsigned integer is ToString. *)
(* Option<T> is the record [some |-> FALSE] or [some |-> TRUE, val |-> v].  *)
(***************************************************************************)
EXTENDS Integers, Sequences, FiniteSets, TLC

VARIABLES
    cfg,      \* the build configuration the crate was compiled under
    pc,       \* position of the enclosing operation
    steps,    \* ordinary statements the enclosing operation has executed
    err,      \* Option<FormulaError>: the error value in hand / in the Err result
    result,   \* "none" while running, "Ok" or "Err" once the operation returned
    text,     \* Option<String>: output of the last Display call
    panicMsg, \* Option<String>: payload of the panic, once halted
    first,    \* history: Option<Span>, the first span ever attached to err
    last      \* history: the last operation executed, with its inputs

vars == <<cfg, pc, steps, err, result, text, panicMsg, first, last>>

------------------------------------------------------------------------------
(* Bounds of the model *)

MaxOffset == 10
MaxDim == 2
MaxSteps == 1

------------------------------------------------------------------------------
(* Option *)

None == [some |-> FALSE]
Some(v) == [some |-> TRUE, val |-> v]

------------------------------------------------------------------------------
(* Span: {start, end} character offsets (super::Span, used by value) *)

\* offset 0 and the offsets around the step from one digit to two
Offsets == {0} \cup 9..MaxOffset
Spans == {[start |-> a, end |-> b] : a \in Offsets, b \in Offsets}

------------------------------------------------------------------------------
(* FormulaErrorMsg: the closed enum of error kinds *)

UnitTags ==
    {"Unimplemented", "UnknownError", "NonRectangularArray", "BadArgumentCount",
     "BadFunctionName", "BadCellReference", "BadNumber", "CircularReference",
     "Overflow", "DivideByZero", "NegativeExponent", "IndexOutOfBounds"}

InternalError(s) == [tag |-> "InternalError", s |-> s]
Unterminated(s) == [tag |-> "Unterminated", s |-> s]
Expected(e, g) == [tag |-> "Expected", expected |-> e, got |-> g]
ArraySizeMismatch(e, g) == [tag |-> "ArraySizeMismatch", expected |-> e, got |-> g]

Msgs == {"unreachable branch X", "a\nb"}
Constructs == {"string", "comment"}
Descriptions == {"a number"}
Gots == {None, Some("a string")}
Sizes == {<<r, r + 1>> : r \in 1..MaxDim}

FormulaErrorMsg ==
    {[tag |-> t] : t \in UnitTags}
    \cup {InternalError(s) : s \in Msgs}
    \cup {Unterminated(s) : s \in Constructs}
    \cup {Expected(e, g) : e \in Descriptions, g \in Gots}
    \cup {ArraySizeMismatch(e, g) : e \in Sizes, g \in Sizes}

------------------------------------------------------------------------------
(* FormulaError { span: Option<Span>, msg: FormulaErrorMsg } *)

FormulaError(span, msg) == [span |-> span, msg |-> msg]

\* impl FormulaErrorMsg { fn with_span(self, span) }
FormulaErrorMsg_with_span(msg, span) == FormulaError(Some(span), msg)

\* variant: the error is built with a default span instead of none
FormulaErrorMsg_without_span_default(msg) ==
    FormulaError(Some([start |-> 0, end |-> 0]), msg)

\* impl FormulaErrorMsg { const fn without_span(self) }
FormulaErrorMsg_without_span(msg) == FormulaError(None, msg)

\* impl<T: Into<FormulaErrorMsg>> From<T> for FormulaError
FormulaError_from(msg) == FormulaErrorMsg_without_span(msg)

\* variant: the span is assigned without testing is_none()
FormulaError_with_span_overwrite(self, span) == [self EXCEPT !.span = Some(span)]

\* variant: the test is inverted, so an absent span is never filled
FormulaError_with_span_never(self, span) ==
    IF self.span.some THEN [self EXCEPT !.span = Some(span)] ELSE self

\* variant: a fresh error is built around the span and the kind is lost
FormulaError_with_span_reset_msg(self, span) ==
    IF ~self.span.some THEN FormulaError(Some(span), [tag |-> "UnknownError"]) ELSE self

\* impl FormulaError { fn with_span(mut self, span) }
FormulaError_with_span(self, span) ==
    IF ~self.span.some THEN [self EXCEPT !.span = Some(span)] ELSE self

------------------------------------------------------------------------------
(* Rendering *)

\* {:?} of a (usize, usize)
DebugPair(p) == "(" \o ToString(p[1]) \o ", " \o ToString(p[2]) \o ")"

BugSentence == "This is a bug in Quadratic, not your formula. Please report this to us!"

\* variant: the two sentences are joined by a space, not a line break
InternalError_fmt_oneline(s) == "Internal error: " \o s \o " " \o BugSentence

\* Self::InternalError(s) => write!(..)
InternalError_fmt(s) == "Internal error: " \o s \o "\n" \o BugSentence

\* impl fmt::Display for FormulaErrorMsg
FormulaErrorMsg_fmt(self) ==
    CASE self.tag = "Unimplemented" -> "This feature is unimplemented"
      [] self.tag = "UnknownError" -> "(unknown error)"
      [] self.tag = "InternalError" -> InternalError_fmt(self.s)
      [] self.tag = "Unterminated" -> "This " \o self.s \o " never ends"
      [] self.tag = "Expected" ->
            IF self.got.some
            THEN "Expected " \o self.expected \o ", got " \o self.got.val
            ELSE "Expected " \o self.expected
      [] self.tag = "ArraySizeMismatch" ->
            "Array size mismatch: expected " \o DebugPair(self.expected)
                \o ", got " \o DebugPair(self.got)
      [] self.tag = "NonRectangularArray" -> "Array must be rectangular"
      [] self.tag = "BadArgumentCount" -> "Bad argument count"
      [] self.tag = "BadFunctionName" -> "There is no function with this name"
      [] self.tag = "BadCellReference" -> "Bad cell reference"
      [] self.tag = "BadNumber" -> "Bad numeric literal"
      [] self.tag = "CircularReference" -> "Circular reference"
      [] self.tag = "Overflow" -> "Numeric overflow"
      [] self.tag = "DivideByZero" -> "Divide by zero"
      [] self.tag = "NegativeExponent" -> "Negative exponent"
      [] self.tag = "IndexOutOfBounds" -> "Index out of bounds"

\* variant: start and end are written in the wrong order
FormulaError_fmt_swapped(self) ==
    IF self.span.some
    THEN "column " \o ToString(self.span.val.end) \o " to "
            \o ToString(self.span.val.start) \o ": " \o FormulaErrorMsg_fmt(self.msg)
    ELSE FormulaErrorMsg_fmt(self.msg)

\* impl fmt::Display for FormulaError
FormulaError_fmt(self) ==
    IF self.span.some
    THEN "column " \o ToString(self.span.val.start) \o " to "
            \o ToString(self.span.val.end) \o ": " \o FormulaErrorMsg_fmt(self.msg)
    ELSE FormulaErrorMsg_fmt(self.msg)

------------------------------------------------------------------------------
(* Build configuration and #[cfg(...)] predicates *)

TargetArchs == {"wasm32", "x86_64"}
Cfgs == [debug_assertions : BOOLEAN, target_arch : TargetArchs]

CfgFlag(name) == [op |-> "flag", name |-> name]
CfgTargetArch(a) == [op |-> "target_arch", value |-> a]
CfgNot(p) == [op |-> "not", arg |-> p]
CfgAll(ps) == [op |-> "all", args |-> ps]

\* variant: the `not` around the target test is missing
PanicCfg_wasm == CfgAll(<<CfgFlag("debug_assertions"), CfgTargetArch("wasm32")>>)

\* #[cfg(all(debug_assertions, not(target_arch = "wasm32")))]
PanicCfg == CfgAll(<<CfgFlag("debug_assertions"), CfgNot(CfgTargetArch("wasm32"))>>)

\* variant: the release statement is kept only without debug assertions
ValueCfg_not_debug == CfgNot(CfgFlag("debug_assertions"))

\* #[cfg(not(all(debug_assertions, not(target_arch = "wasm32"))))]
ValueCfg == CfgNot(PanicCfg)

\* rustc's evaluation of a cfg predicate under a configuration
RECURSIVE CfgEval(_, _)
CfgEval(p, c) ==
    CASE p.op = "flag" -> c[p.name]
      [] p.op = "target_arch" -> c.target_arch = p.value
      [] p.op = "not" -> ~CfgEval(p.arg, c)
      [] p.op = "all" -> \A i \in DOMAIN p.args : CfgEval(p.args[i], c)

------------------------------------------------------------------------------
(* format!: each "{}" of the format string takes the Display of the next    *)
(* argument, given here already rendered                                    *)

\* Display of each of a list of unsigned integers
DisplayAll(ns) == [i \in DOMAIN ns |-> ToString(ns[i])]

RECURSIVE Format(_, _)
Format(fmt, args) ==
    IF fmt = "" THEN ""
    ELSE IF Len(fmt) >= 2 /\ SubSeq(fmt, 1, 2) = "{}"
         THEN Head(args) \o Format(SubSeq(fmt, 3, Len(fmt)), Tail(args))
         ELSE Head(fmt) \o Format(Tail(fmt), args)

FmtInputs ==
    {[fmt |-> "bad index {}", args |-> <<n>>] : n \in 1..MaxDim}
    \cup {[fmt |-> "{}x{} array", args |-> <<r, c>>] : r \in {MaxDim}, c \in 1..MaxDim}

------------------------------------------------------------------------------
(* internal_error_value!: the statements that survive cfg-stripping run in  *)
(* order; `let ret = panic!(..)` diverges, `let ret = ..without_span()`     *)
(* binds the value, and with neither compiled in `ret` is unbound.          *)
(* Cow::Borrowed(m) and Cow::Owned(m) are modelled by their contents.       *)

Panic(m) == [kind |-> "panic", msg |-> m]
Value(e) == [kind |-> "value", ret |-> e]
Unbound == [kind |-> "unbound"]

\* variant: the panic statement is guarded by debug_assertions alone
internal_error_value_lit_debug_only(c, m) ==
    IF c.debug_assertions THEN Panic(Format("{}", <<m>>))
    ELSE Value(FormulaErrorMsg_without_span(InternalError(m)))

\* first arm: ( $msg:expr )
internal_error_value_lit(c, m) ==
    IF CfgEval(PanicCfg, c) THEN Panic(Format("{}", <<m>>))
    ELSE IF CfgEval(ValueCfg, c)
         THEN Value(FormulaErrorMsg_without_span(InternalError(m)))
         ELSE Unbound

\* second arm: ( $( $args:expr ),+ $(,)? )
internal_error_value_fmt(c, f) ==
    IF CfgEval(PanicCfg, c) THEN Panic(Format(f.fmt, DisplayAll(f.args)))
    ELSE IF CfgEval(ValueCfg, c)
         THEN Value(FormulaErrorMsg_without_span(InternalError(Format(f.fmt, DisplayAll(f.args)))))
         ELSE Unbound

------------------------------------------------------------------------------
(* The enclosing operation: a function returning Result<_, FormulaError>    *)

Opts == {None, Some(1)}

Init ==
    /\ cfg \in Cfgs
    /\ pc = "idle"
    /\ steps = 0
    /\ err = None
    /\ result = "none"
    /\ text = None
    /\ panicMsg = None
    /\ first = None
    /\ last = [op |-> "init"]

\* the operation is entered (again, for the next formula)
Call ==
    /\ pc \in {"idle", "returned"}
    /\ pc' = "running"
    /\ steps' = 0
    /\ err' = None
    /\ result' = "none"
    /\ text' = None
    /\ first' = None
    /\ last' = [op |-> "call"]
    /\ UNCHANGED <<cfg, panicMsg>>

\* an ordinary statement of the operation that raises nothing
Step ==
    /\ pc = "running"
    /\ ~err.some
    /\ steps < MaxSteps
    /\ steps' = steps + 1
    /\ text' = None
    /\ last' = [op |-> "step"]
    /\ UNCHANGED <<cfg, pc, err, result, panicMsg, first>>

\* let e = msg.with_span(span);
Raise_with_span(msg, span) ==
    /\ pc = "running"
    /\ ~err.some
    /\ err' = Some(FormulaErrorMsg_with_span(msg, span))
    /\ first' = Some(span)
    /\ text' = None
    /\ last' = [op |-> "msg_with_span", msg |-> msg, span |-> span]
    /\ UNCHANGED <<cfg, pc, steps, result, panicMsg>>

\* let e = msg.without_span();
Raise_without_span(msg) ==
    /\ pc = "running"
    /\ ~err.some
    /\ err' = Some(FormulaErrorMsg_without_span(msg))
    /\ text' = None
    /\ last' = [op |-> "without_span", msg |-> msg]
    /\ UNCHANGED <<cfg, pc, steps, result, panicMsg, first>>

\* let e: FormulaError = msg.into();
Raise_from(msg) ==
    /\ pc = "running"
    /\ ~err.some
    /\ err' = Some(FormulaError_from(msg))
    /\ text' = None
    /\ last' = [op |-> "from", msg |-> msg]
    /\ UNCHANGED <<cfg, pc, steps, result, panicMsg, first>>

\* e = e.with_span(span), in the operation or in a caller the Err unwinds through
With_span(span) ==
    /\ pc \in {"running", "returned"}
    /\ err.some
    /\ err' = Some(FormulaError_with_span(err.val, span))
    /\ first' = IF first.some THEN first ELSE Some(span)
    /\ text' = None
    /\ last' = IF err.val.span.some
               THEN [op |-> "with_span", had |-> TRUE, differs |-> err.val.span.val # span]
               ELSE [op |-> "with_span", had |-> FALSE, span |-> span]
    /\ UNCHANGED <<cfg, pc, steps, result, panicMsg>>

\* what the operation does with the outcome of an internal_error_value! expansion
Halt(out) ==
    /\ pc' = IF out.kind = "panic" THEN "panicked" ELSE "unbuildable"
    /\ panicMsg' = IF out.kind = "panic" THEN Some(out.msg) ELSE None
    /\ err' = None
    /\ result' = "none"

\* let e = internal_error_value!("literal");
Value_lit(m) ==
    LET out == internal_error_value_lit(cfg, m) IN
    /\ pc = "running"
    /\ ~err.some
    /\ IF out.kind = "value"
       THEN err' = Some(out.ret) /\ UNCHANGED <<pc, result, panicMsg>>
       ELSE Halt(out)
    /\ text' = None
    /\ last' = [op |-> "internal_error_value", lit |-> m]
    /\ UNCHANGED <<cfg, steps, first>>

\* let e = internal_error_value!("format {}", args);
Value_fmt(f) ==
    LET out == internal_error_value_fmt(cfg, f) IN
    /\ pc = "running"
    /\ ~err.some
    /\ IF out.kind = "value"
       THEN err' = Some(out.ret) /\ UNCHANGED <<pc, result, panicMsg>>
       ELSE Halt(out)
    /\ text' = None
    /\ last' = [op |-> "internal_error_value", fmt |-> f]
    /\ UNCHANGED <<cfg, steps, first>>

\* opt.ok_or(internal_error_value!("literal")): the argument is evaluated
\* before ok_or looks at opt, and dropped when opt is Some
Ok_or(opt, m) ==
    LET out == internal_error_value_lit(cfg, m) IN
    /\ pc = "running"
    /\ ~err.some
    /\ IF out.kind = "value"
       THEN /\ err' = IF opt.some THEN None ELSE Some(out.ret)
            /\ UNCHANGED <<pc, result, panicMsg>>
       ELSE Halt(out)
    /\ text' = None
    /\ last' = [op |-> "ok_or", opt |-> opt, lit |-> m]
    /\ UNCHANGED <<cfg, steps, first>>

\* opt.ok_or_else(|| internal_error_value!("literal")): the closure runs
\* only when opt is None
Ok_or_else(opt, m) ==
    LET out == internal_error_value_lit(cfg, m) IN
    /\ pc = "running"
    /\ ~err.some
    /\ IF opt.some
       THEN UNCHANGED <<pc, err, result, panicMsg>>
       ELSE IF out.kind = "value"
            THEN err' = Some(out.ret) /\ UNCHANGED <<pc, result, panicMsg>>
            ELSE Halt(out)
    /\ text' = None
    /\ last' = [op |-> "ok_or_else", opt |-> opt, lit |-> m]
    /\ UNCHANGED <<cfg, steps, first>>

\* variant: the macro yields Err(..) as a value and the operation goes on
ReturnErrOf_no_return(out) ==
    IF out.kind = "value"
    THEN /\ err' = Some(out.ret)
         /\ UNCHANGED <<pc, result, panicMsg>>
    ELSE Halt(out)

\* what `return Err(<outcome>)` does to the operation
ReturnErrOf(out) ==
    IF out.kind = "value"
    THEN /\ pc' = "returned"
         /\ result' = "Err"
         /\ err' = Some(out.ret)
         /\ UNCHANGED panicMsg
    ELSE Halt(out)

\* internal_error!("literal");
internal_error_lit(m) ==
    /\ pc = "running"
    /\ ~err.some
    /\ ReturnErrOf(internal_error_value_lit(cfg, m))
    /\ text' = None
    /\ last' = [op |-> "internal_error", lit |-> m]
    /\ UNCHANGED <<cfg, steps, first>>

\* internal_error!("format {}", args);
internal_error_fmt(f) ==
    /\ pc = "running"
    /\ ~err.some
    /\ ReturnErrOf(internal_error_value_fmt(cfg, f))
    /\ text' = None
    /\ last' = [op |-> "internal_error", fmt |-> f]
    /\ UNCHANGED <<cfg, steps, first>>

\* return Err(e) / `?` on the error in hand
ReturnErr ==
    /\ pc = "running"
    /\ err.some
    /\ pc' = "returned"
    /\ result' = "Err"
    /\ text' = None
    /\ last' = [op |-> "return_err"]
    /\ UNCHANGED <<cfg, steps, err, panicMsg, first>>

\* the operation completes without an error
ReturnOk ==
    /\ pc = "running"
    /\ ~err.some
    /\ pc' = "returned"
    /\ result' = "Ok"
    /\ text' = None
    /\ last' = [op |-> "return_ok"]
    /\ UNCHANGED <<cfg, steps, err, panicMsg, first>>

\* e.to_string()
Display ==
    /\ pc \in {"running", "returned"}
    /\ err.some
    /\ text' = Some(FormulaError_fmt(err.val))
    /\ last' = [op |-> "display"]
    /\ UNCHANGED <<cfg, pc, steps, err, result, panicMsg, first>>

\* e.msg.to_string()
DisplayMsg ==
    /\ pc \in {"running", "returned"}
    /\ err.some
    /\ text' = Some(FormulaErrorMsg_fmt(err.val.msg))
    /\ last' = [op |-> "msg_display"]
    /\ UNCHANGED <<cfg, pc, steps, err, result, panicMsg, first>>

Next ==
    \/ Call
    \/ Step
    \/ \E msg \in FormulaErrorMsg, span \in Spans : Raise_with_span(msg, span)
    \/ \E msg \in FormulaErrorMsg : Raise_without_span(msg)
    \/ \E msg \in FormulaErrorMsg : Raise_from(msg)
    \/ \E span \in Spans : With_span(span)
    \/ \E m \in Msgs : Value_lit(m)
    \/ \E f \in FmtInputs : Value_fmt(f)
    \/ \E opt \in Opts, m \in Msgs : Ok_or(opt, m)
    \/ \E opt \in Opts, m \in Msgs : Ok_or_else(opt, m)
    \/ \E m \in Msgs : internal_error_lit(m)
    \/ \E f \in FmtInputs : internal_error_fmt(f)
    \/ ReturnErr
    \/ ReturnOk
    \/ Display
    \/ DisplayMsg

Spec == Init /\ [][Next]_vars

------------------------------------------------------------------------------
(* Vocabulary of the properties *)

\* the configuration in which an internal error halts: a native debug build
Development(c) == c.debug_assertions /\ c.target_arch # "wasm32"

\* every other configuration: any release build, any wasm32 build
Production(c) == ~c.debug_assertions \/ c.target_arch = "wasm32"

\* the operations that expand internal_error_value! and evaluate the expansion
Constructed(l) ==
    \/ l.op \in {"internal_error_value", "internal_error", "ok_or"}
    \/ l.op = "ok_or_else" /\ ~l.opt.some

\* the text a formatted message is expected to have, spelled out per format
ExpectedFormat(f) ==
    IF f.fmt = "bad index {}"
    THEN "bad index " \o ToString(f.args[1])
    ELSE ToString(f.args[1]) \o "x" \o ToString(f.args[2]) \o " array"

\* the message m an internal-error operation was given
MessageOf(l) == IF "lit" \in DOMAIN l THEN l.lit ELSE ExpectedFormat(l.fmt)

\* the positions of the line breaks of a text
Breaks(s) == {i \in 1..Len(s) : SubSeq(s, i, i) = "\n"}

HasLineBreak(s) == Breaks(s) # {}

\* the lines of a text, split at each line break
RECURSIVE SplitLines(_)
SplitLines(s) ==
    IF Breaks(s) = {} THEN <<s>>
    ELSE LET i == CHOOSE j \in Breaks(s) : \A k \in Breaks(s) : j <= k
         IN <<SubSeq(s, 1, i - 1)>> \o SplitLines(SubSeq(s, i + 1, Len(s)))

------------------------------------------------------------------------------
(* Properties *)

\* C1: first span wins. Once the span of an error is present, no later
\* with_span call, whatever span it is given, changes it: in every step that
\* keeps the error, a present span stays exactly the same.
C1_FirstSpanWins ==
    [][(err.some /\ err'.some /\ err.val.span.some)
          => (err'.val.span = err.val.span /\ err'.val.span = first)]_vars

\* a with_span call with a different span was made on an error that already
\* had one, and the span is still the first one
C1_Witness ==
    /\ err.some
    /\ last.op = "with_span"
    /\ last.had
    /\ last.differs
    /\ err.val.span = first

\* C2: with_span is effective on absence. After a with_span(S) call on an
\* error whose span was absent, the span is present and equal to exactly S.
C2_EffectiveOnAbsence ==
    (last.op = "with_span" /\ ~last.had)
        => (err.some /\ err.val.span = Some(last.span))

\* with_span filled an absent span with a two-digit offset
C2_Witness ==
    /\ last.op = "with_span"
    /\ ~last.had
    /\ err.some
    /\ err.val.span.some
    /\ err.val.span.val.end = MaxOffset

\* C3: with_span changes nothing but the span. A with_span step keeps the
\* kind (msg and payload) of the error, and when the error already had a span
\* the whole error is unchanged.
C3_OnlySpanChanges ==
    [][(err.some /\ err'.some /\ last'.op = "with_span")
          => /\ err'.val.msg = err.val.msg
             /\ (err.val.span.some => err'.val = err.val)]_vars

\* with_span acted on a span-less error that carries a payload
C3_Witness ==
    /\ last.op = "with_span"
    /\ ~last.had
    /\ err.some
    /\ err.val.msg.tag = "ArraySizeMismatch"
    /\ err.val.msg.expected # err.val.msg.got

\* C4: the default conversion (From) and without_span yield an error whose
\* span is absent and whose kind is the kind given, for every variant.
C4_DefaultConversionNoSpan ==
    (last.op \in {"from", "without_span"})
        => err = Some([span |-> None, msg |-> last.msg])

\* a kind with a payload was converted with From
C4_Witness ==
    /\ last.op = "from"
    /\ err.some
    /\ ~err.val.span.some
    /\ err.val.msg = Expected("a number", Some("a string"))

\* C5: rendering a FormulaError. With a span the text is exactly
\* "column {start} to {end}: {message}", without one it is exactly {message};
\* the offsets are those of the first span attached.
C5_DisplayForm ==
    (last.op = "display")
        => /\ text.some
           /\ err.some
           /\ err.val.span = first
           /\ first.some
                => text.val = "column " \o ToString(first.val.start) \o " to "
                                \o ToString(first.val.end) \o ": "
                                \o FormulaErrorMsg_fmt(err.val.msg)
           /\ ~first.some => text.val = FormulaErrorMsg_fmt(err.val.msg)

\* an error with a span of a one-digit start and a two-digit end was rendered
C5_Witness ==
    /\ last.op = "display"
    /\ text.some
    /\ first.some
    /\ first.val.start = 9
    /\ first.val.end = 10
    /\ err.val.msg.tag = "DivideByZero"
    /\ text.val = "column 9 to 10: Divide by zero"

\* C6: in the production configuration internal_error_value! with message m
\* does not halt and yields an error of kind InternalError(m) with no span.
C6_ProductionReturnsValue ==
    (Production(cfg) /\ last.op = "internal_error_value")
        => /\ pc = "running"
           /\ ~panicMsg.some
           /\ err = Some([span |-> None, msg |-> InternalError(MessageOf(last))])

\* a release build formatted the message of an internal error
C6_Witness ==
    /\ ~cfg.debug_assertions
    /\ last.op = "internal_error_value"
    /\ "fmt" \in DOMAIN last
    /\ err.some
    /\ err.val.msg = InternalError("bad index 2")

\* C7: in the development configuration every construction of an internal
\* error halts and hands no FormulaError to the caller, also when the caller
\* would have dropped the value (the eagerly evaluated argument of ok_or).
C7_DevelopmentHalts ==
    (Development(cfg) /\ Constructed(last))
        => /\ pc = "panicked"
           /\ panicMsg = Some(MessageOf(last))
           /\ ~err.some
           /\ result = "none"

\* a native debug build halted in ok_or although the option was Some
C7_Witness ==
    /\ Development(cfg)
    /\ last.op = "ok_or"
    /\ last.opt.some
    /\ pc = "panicked"

\* C8: internal_error! builds the value and returns it at once. In the
\* production configuration the operation ends with
\* Err(FormulaError{InternalError(m), no span}) and executes no further step;
\* in the development configuration it halts.
C8_PropagatingForm ==
    /\ [][(pc = "running" /\ last'.op = "internal_error")
            => IF Development(cfg)
               THEN /\ pc' = "panicked"
                    /\ panicMsg' = Some(MessageOf(last'))
                    /\ ~err'.some
                    /\ result' = "none"
               ELSE /\ pc' = "returned"
                    /\ result' = "Err"
                    /\ err' = Some([span |-> None,
                                    msg |-> InternalError(MessageOf(last'))])
                    /\ steps' = steps]_vars
    /\ [][(pc = "returned" /\ pc' = "returned")
            => (steps' = steps /\ result' = result)]_vars

\* a production build returned from the operation through internal_error!
\* after it had executed a statement
C8_Witness ==
    /\ Production(cfg)
    /\ last.op = "internal_error"
    /\ pc = "returned"
    /\ result = "Err"
    /\ steps > 0

\* C9 as stated: the rendering of InternalError(s), for s without a line
\* break, has exactly two lines, the text s and the bug-report sentence.
C9_TwoLinesAsStated ==
    (last.op = "msg_display" /\ err.val.msg.tag = "InternalError"
        /\ ~HasLineBreak(err.val.msg.s))
        => SplitLines(text.val) = <<err.val.msg.s, BugSentence>>

\* C9 amended: the rendering of InternalError(s), for s without a line break,
\* has exactly two lines, "Internal error: " followed by s, and the
\* bug-report sentence.
C9_TwoLines ==
    (last.op = "msg_display" /\ err.val.msg.tag = "InternalError"
        /\ ~HasLineBreak(err.val.msg.s))
        => SplitLines(text.val) = <<"Internal error: " \o err.val.msg.s, BugSentence>>

\* the kind InternalError("unreachable branch X") was rendered
C9_Witness ==
    /\ last.op = "msg_display"
    /\ text.some
    /\ err.val.msg = InternalError("unreachable branch X")

\* C10: the build-mode switch is total and exclusive. In every configuration
\* exactly one of the two statements is compiled in; the halting one only
\* with debug assertions on a target other than wasm32; a construction halts
\* exactly in that configuration; and the configuration never changes.
C10_BuildModeSwitch ==
    /\ [](/\ CfgEval(PanicCfg, cfg) # CfgEval(ValueCfg, cfg)
          /\ CfgEval(PanicCfg, cfg) <=> Development(cfg)
          /\ CfgEval(ValueCfg, cfg) <=> Production(cfg)
          /\ pc # "unbuildable"
          /\ pc = "panicked" => Development(cfg)
          /\ Constructed(last) => (pc = "panicked" <=> Development(cfg)))
    /\ [][cfg' = cfg]_vars

\* a wasm32 build with debug assertions on constructed an internal error and
\* got a value
C10_Witness ==
    /\ cfg.debug_assertions
    /\ cfg.target_arch = "wasm32"
    /\ last.op = "ok_or_else"
    /\ ~last.opt.some
    /\ err.some
    /\ pc = "running"

====
